---- MODULE Spec2Model ----
(***************************************************************************)
(* queuectl: the job lifecycle engine (src/src/core/job_manager.py) and    *)
(* the worker loop (src/src/core/worker.py).                               *)
(*                                                                         *)
(* Processes are OS processes sharing one JSON file.  The client (process  *)
(* 0) stands for the CLI invocations, the workers (1..NumWorkers) for the  *)
(* processes WorkerPool.start spawns.  Every handler is split at its       *)
(* accesses to the shared file: each _load_db and each _save_db is a step  *)
(* of its own, and other processes run in between.  _save_db opens the     *)
(* file with mode 'w', which truncates it, before json.dump fills it: a    *)
(* process at "save" may already have truncated the file, so a _load_db    *)
(* by another process at that time may find nothing to parse.              *)
(***************************************************************************)
EXTENDS Integers, FiniteSets, Sequences, TLC

\* ---------------------------------------------------------------- bounds
NumWorkers == 2
\* job ids a document can hold
MaxJobs == 3
\* the clock's last value in the run-at inputs
MaxTime == 2
MaxRetriesBound == 2
\* cancel / retry / purge invocations of the CLI in one run
MaxAdminCalls == 1
\* force-kills of worker processes in one run
MaxKills == 1
\* mark_failed is followed up to this many attempts
MaxAttempts == 3

\* ------------------------------------------------------ program constants
\* dict key missing (job.get(..) default / field never written)
Absent == -1
\* JSON null: reset_for_retry / retry_job store 'retry_after': None
Null == -2
\* a run_at that dateutil parses into a datetime without tzinfo (no UTC offset
\* given), naming a date already past, such as 2000-01-01T00:00:00
NaiveRunAt == -3
\* a run_at that date_parser.parse rejects
BadRunAt == -4
\* a run_at with an offset other than UTC naming the instant 0, such as
\* 1970-01-01T05:30:00+05:30; parse and isoformat keep the offset
OffsetRunAt == -5
\* Config.__init__: int(os.getenv('QUEUECTL_BACKOFF_BASE', '2'))
DefaultBackoffBase == 2
\* Config's other compiled defaults (the texts stand as codes)
DefaultMaxRetries == 3
DefaultPollInterval == 1
DefaultTimeout == 300
DefaultDbPath == -7
DefaultLogLevel == -8
DefaultLogFile == -9
\* a value on the command line that is no number, and config get's 'Not set'
NotANumber == -6
NotSet == -10
\* worker start's --backoff-base option: default=2
FlagDefault == 2
\* enqueue --timeout with a negative number
NegativeTimeout == -20
\* WorkerPool.stop's timeout, in seconds
GraceWindow == 30
\* started_at, completed_at, dlq_at, cancelled_at hold a timestamp no code reads
\* back: the model keeps only that the field has been written
Written == 1

Client == 0
Workers == 1..NumWorkers
Procs == {Client} \cup Workers
JobIds == 1..MaxJobs
NoId == 0
PriorityInputs == {1, 5, 10}
MaxRetriesInputs == 1..MaxRetriesBound
\* --run-at: none, unparseable, a naive datetime, an instant with another
\* offset, instants in UTC
RunAtInputs == {Absent, BadRunAt, NaiveRunAt, OffsetRunAt} \cup (0..MaxTime)
\* Spec's runs: every command, one job; the backoff is worker start's
\* --backoff-base (default 2)
SpecJobs == 1
SpecClaims == 2
SpecTime == 1
SpecBackoff == 1
SpecPriorities == {1}
SpecRunAts == {Absent, 1}
\* SpecQueue's runs: enqueue and the worker loop, two jobs
QueueJobs == 2
QueueClaims == 2
QueueTime == 1
QueueBackoff == 1
QueuePriorities == {1, 5}
QueueRetries == {2}
QueueRunAts == {Absent, 1}
\* SpecOrder's runs: one worker, three jobs of three priorities
OrderWorkers == 1
OrderJobs == 3
OrderClaims == 2
OrderTime == 1
OrderBackoff == 1
OrderPriorities == {1, 5, 10}
OrderRetries == {2}
OrderRunAts == {Absent, 1}
\* SpecFail's runs: one job whose command exits 1 on every attempt, dlq retry
FailJobs == 1
FailClaims == 3
FailTime == 1
FailBackoff == 1
FailRunAts == {Absent}
\* SpecSchedule's runs: enqueue with every kind of --run-at, and the worker loop
SchedJobs == 2
SchedClaims == 2
SchedTime == 1
SchedBackoff == 1
SchedWorkers == 1
SchedPriorities == {1, 5}
SchedRetries == {2}

\* SpecShutdown's runs: one worker, two jobs, SIGINT / SIGTERM to the worker
ShutWorkers == 1
ShutJobs == 2
ShutClaims == 2
ShutTime == 1
ShutBackoff == 1
ShutPriorities == {1}
ShutRetries == {2}
ShutRunAts == {Absent}
\* SpecPool's runs: worker start --count 2, one job, Ctrl+C
PoolWorkers == 2
PoolJobs == 1
PoolClaims == 2
PoolTime == 1
PoolBackoff == 1
PoolPriorities == {1}
PoolRetries == {2}
PoolRunAts == {Absent}
\* SpecConfig's runs: one worker, one job whose command fails, and every
\* combination of QUEUECTL_BACKOFF_BASE, a backoff_base in data/config.json and
\* --backoff-base, each absent or set
ConfigWorkers == 1
ConfigJobs == 1
ConfigClaims == 2
ConfigTime == 1
ConfigPriorities == {1}
ConfigRetries == {2}
ConfigRunAts == {Absent}
EnvInputs == {Absent, 1}
SavedInputs == {Absent, 3}
FlagInputs == {Absent, 1}
\* SpecReport's runs: one worker, two jobs, cancel, purge, status and list
ReportWorkers == 1
ReportJobs == 2
ReportCalls == 2
ReportClaims == 2
ReportTime == 1
ReportBackoff == 1
ReportPriorities == {1, 5}
ReportRetries == {2}
ReportRunAts == {Absent}
\* list --state and --limit
ListStates == {"", "pending"}
ListLimits == {1, 2}
\* SpecExecute's runs: one job's --timeout, the worker's default_timeout, the
\* seconds its command runs and its exit code
TimeoutInputs == {Absent, 0, 1, 2, NegativeTimeout}
DefaultTimeoutInputs == {0, 1, 2, DefaultTimeout}
DurationInputs == {1, 2, 3}
ExitCodes == {0, 1}
\* SpecSettings' runs: config set and config get, no job and no worker
SettingsCalls == 2
SettingsValues == {1, 2, NotANumber}

VARIABLES
    torn,       \* the file was left without a parseable document (a writer died
                \* after truncating it, or two writers' bytes are mixed)
    disk,       \* the document in the file (EmptyDoc while torn)
    committed,  \* history: the last document a _save_db wrote in full
    now,        \* wall clock, in seconds
    pc,         \* where each process is
    op,         \* the JobManager operation each process is in
    db,         \* each process's local 'db' (the loaded document, then modified)
    job,        \* mark_failed's local 'job' (the copy get_job returned)
    arg,        \* the job id the running operation was called with
    cur,        \* Worker.current_job (NoId: None)
    rlist,      \* the ids of get_retryable_jobs() still to be reset by the loop
    loadErr,    \* the operation's last _load_db took its except branch
    issued,     \* how many ids enqueue's uuid4() has handed out
    calls,      \* how many cancel / retry / purge invocations went on to write,
                \* and how many config set commands have run
    kills,      \* how many worker processes have been force-killed
    claims,     \* how many times get_next_job has locked a job
    args,       \* the arguments of the enqueue call the client is in
    running,    \* Worker.running of each worker process
    pool,       \* the process that runs worker start: where WorkerPool.start or
                \* WorkerPool.stop is (pc), the index of the process its loop is
                \* at (i), and stop's start_time
    config_data,\* data/config.json: its keys in the order they were inserted,
                \* each with its value
    out,        \* what the last CLI command echoed
    execution,  \* one run of _execute_job: the timeout its job was enqueued
                \* with (given) and holds (timeout), how long its command runs
                \* and its exit code, and the call and the error it ends with
    ret,        \* what the client's get_stats, list_jobs and purge_completed
                \* calls returned, in the order of the calls
    lim         \* the run: its limits on issued, calls, kills, claims and now,
                \* the pool's --count and --backoff-base, and the values its
                \* enqueue invocations are given

vars == <<torn, disk, committed, now, pc, op, db, job, arg, cur, rlist, loadErr,
          issued, calls, kills, claims, args, lim, ret, running, pool, config_data, out,
          execution>>

\* ------------------------------------------------------------- documents
NoJob ==
    [state |-> "absent", priority |-> 0, attempts |-> 0, max_retries |-> 0,
     created_at |-> Absent, updated_at |-> Absent, run_at |-> Absent,
     started_at |-> Absent, worker_id |-> 0, completed_at |-> Absent,
     dlq_at |-> Absent, cancelled_at |-> Absent, retry_after |-> Absent,
     error |-> ""]

EmptyDoc == [j \in JobIds |-> NoJob]

\* no enqueue call in progress
NoArgs == [priority |-> 0, max_retries |-> 0, run_at |-> Absent]

Has(d, j) == d[j].state # "absent"

\* len(db['jobs'])
Size(d) == Cardinality({j \in JobIds : Has(d, j)})

\* len([j for j in jobs if j['state'] == st]), by_state.get(st, 0)
CountOf(d, st) == Cardinality({j \in JobIds : d[j].state = st})

\* get_stats' dict; success_rate = completed / total * 100 is kept as the
\* fraction num / den
StatsOf(d) ==
    LET total == Size(d)
    IN  [total |-> total,
         pending |-> CountOf(d, "pending"),
         running |-> CountOf(d, "running"),
         completed |-> CountOf(d, "completed"),
         failed |-> CountOf(d, "failed"),
         dlq |-> CountOf(d, "dlq"),
         scheduled |-> CountOf(d, "scheduled"),
         success_rate |-> IF total > 0
                          THEN [num |-> CountOf(d, "completed") * 100, den |-> total]
                          ELSE [num |-> 0, den |-> 1]]

\* list_jobs' sort(key=(-priority, created_at), reverse=True): a comes before b
\* when its key is the greater tuple
ListKeyGreater(a, b) ==
    \/ 0 - a.priority > 0 - b.priority
    \/ (a.priority = b.priority /\ a.created_at > b.created_at)

\* the jobs S of document d after the sort, which is stable under reverse=True:
\* jobs of equal keys stay in document order
RECURSIVE SortedList(_, _)
SortedList(d, S) ==
    IF S = {} THEN <<>>
    ELSE LET h == CHOOSE j \in S :
                     \A k \in S \ {j} :
                         \/ ListKeyGreater(d[j], d[k])
                         \/ (~ListKeyGreater(d[k], d[j]) /\ j < k)
         IN  <<d[h]>> \o SortedList(d, S \ {h})

\* jobs[:limit], limit >= 0
Slice(L, limit) == SubSeq(L, 1, IF limit < Len(L) THEN limit ELSE Len(L))

\* the jobs list_jobs filters: 'if state:' keeps them all for None and ''
Listed(d, st) == {j \in JobIds : Has(d, j) /\ (st = "" \/ d[j].state = st)}

\* list_jobs' result
ListJobsOf(d, st, limit) == Slice(SortedList(d, Listed(d, st)), limit)

\* a result with nothing in it
NoRet == [call |-> "none", stats |-> StatsOf(EmptyDoc), jobs |-> <<>>, count |-> 0,
          state |-> "", limit |-> 0]

\* backoff_base ** attempts
RECURSIVE Pow(_, _)
Pow(b, n) == IF n <= 0 THEN 1 ELSE b * Pow(b, n - 1)

\* an enqueue that takes every given run_at for a schedule, parsed or not
NewJobAsGiven(priority, max_retries, run_at, t) ==
    [NoJob EXCEPT !.state = IF run_at # Absent THEN "scheduled" ELSE "pending",
                  !.priority = priority,
                  !.max_retries = max_retries,
                  !.created_at = t,
                  !.updated_at = t,
                  !.run_at = run_at]

\* enqueue's job dict; run_at is stored, and the state is 'scheduled', only when
\* run_at is given and date_parser.parse accepts it
NewJob(priority, max_retries, run_at, t) ==
    LET parsed == run_at \notin {Absent, BadRunAt}
    IN  [NoJob EXCEPT !.state = IF parsed THEN "scheduled" ELSE "pending",
                      !.priority = priority,
                      !.max_retries = max_retries,
                      !.created_at = t,
                      !.updated_at = t,
                      !.run_at = IF parsed THEN run_at ELSE Absent]

\* a process inside _save_db
Saving == {"save", "resave"}

\* whether process p's _load_db can find the file unparseable: always when it
\* was left torn, possibly while another process is inside _save_db
LoadFails(p) ==
    IF torn THEN {TRUE}
    ELSE IF \E q \in Procs \ {p} : pc[q] \in Saving THEN {FALSE, TRUE}
    ELSE {FALSE}

\* _load_db: json.load's exception is caught and {'jobs': {}} returned
LoadDb(fail) == IF fail THEN EmptyDoc ELSE disk

\* a gate that forgets the clock and lets every parsed run_at through
DueWhenParsed(run_at, t) == run_at >= 0

\* get_next_job's 'run_at <= now': comparing a naive datetime with the aware
\* 'now' raises TypeError, which the loop's except logs; the job is not promoted.
\* Aware datetimes compare by instant whatever their offset.
Due(run_at, t) == run_at = OffsetRunAt \/ (run_at >= 0 /\ run_at <= t)

\* pending_jobs after the scheduled loop: the pending jobs and the due scheduled ones
Candidates(d, t) ==
    {j \in JobIds : d[j].state = "pending"
                     \/ (d[j].state = "scheduled" /\ Due(d[j].run_at, t))}

\* a sort key that forgets the priority
KeyLessByAge(a, b) == a.created_at < b.created_at

\* the sort key (-priority, created_at), compared as Python compares tuples
KeyLess(a, b) ==
    \/ a.priority > b.priority
    \/ (a.priority = b.priority /\ a.created_at < b.created_at)

\* position of a candidate in pending_jobs before the sort: the pending jobs in
\* document order, then the promoted scheduled jobs in document order
ListPos(d, j) == IF d[j].state = "pending" THEN j ELSE MaxJobs + j

\* pending_jobs[0] after the stable sort
SortedHead(d, t) ==
    CHOOSE j \in Candidates(d, t) :
        \A k \in Candidates(d, t) \ {j} :
            \/ KeyLess(d[j], d[k])
            \/ (~KeyLess(d[k], d[j]) /\ ListPos(d, j) < ListPos(d, k))

\* the scheduled loop sets job['state'] = 'pending' on the dicts of db['jobs']
\* themselves, so every due job is promoted in the document that is saved
Promoted(d, t) ==
    [j \in JobIds |->
        IF d[j].state = "scheduled" /\ Due(d[j].run_at, t)
        THEN [d[j] EXCEPT !.state = "pending"] ELSE d[j]]

\* a lock that marks the job running without naming its worker
ClaimedUnowned(d, j, w, t) ==
    [Promoted(d, t) EXCEPT ![j] =
        [@ EXCEPT !.state = "running", !.started_at = Written]]

\* the document get_next_job saves when it locks job j for worker w
Claimed(d, j, w, t) ==
    [Promoted(d, t) EXCEPT ![j] =
        [@ EXCEPT !.state = "running", !.worker_id = w, !.started_at = Written]]

\* the 'updates' dict each caller hands to update_job
Updates(o, jb, t) ==
    CASE o = "complete" -> [jb EXCEPT !.state = "completed", !.completed_at = Written]
      [] o = "reset"    -> [jb EXCEPT !.state = "pending", !.error = "",
                                      !.retry_after = Null]
      [] o = "retry"    -> [jb EXCEPT !.state = "pending", !.attempts = 0,
                                      !.error = "", !.retry_after = Null]
      [] o = "cancel"   -> [jb EXCEPT !.state = "cancelled", !.cancelled_at = Written]

\* update_job's document: the updates applied, updated_at refreshed
UpdatedDoc(d, j, o, t) ==
    [d EXCEPT ![j] = [Updates(o, d[j], t) EXCEPT !.updated_at = t]]

\* a mark_failed that leaves retry_after as it found it
FailedJobKeepsRetryAfter(jb, t, base) ==
    LET n == jb.attempts + 1
    IN  IF n >= jb.max_retries
        THEN [jb EXCEPT !.attempts = n, !.error = "err", !.state = "dlq",
                        !.dlq_at = Written]
        ELSE [jb EXCEPT !.attempts = n, !.error = "err", !.state = "failed"]


\* mark_failed's local job after lines 218-236 (base: config.backoff_base)
FailedJob(jb, t, base) ==
    LET n == jb.attempts + 1
    IN  IF n >= jb.max_retries
        THEN [jb EXCEPT !.attempts = n, !.error = "err", !.state = "dlq",
                        !.dlq_at = Written]
        ELSE [jb EXCEPT !.attempts = n, !.error = "err", !.state = "failed",
                        !.retry_after = t + Pow(base, n)]

\* get_retryable_jobs: job.get('retry_after', 0) <= now
RetryAfterOf(jb) == IF jb.retry_after = Absent THEN 0 ELSE jb.retry_after

Retryable(d, t) ==
    {j \in JobIds : d[j].state = "failed" /\ RetryAfterOf(d[j]) <= t}

\* a failed job whose retry_after is null makes 'None <= now' raise TypeError
RetryableRaises(d) ==
    \E j \in JobIds : d[j].state = "failed" /\ d[j].retry_after = Null

\* a purge that drops every job that is not waiting or running
PurgedFinished(d) ==
    [j \in JobIds |->
        IF d[j].state \in {"completed", "cancelled", "dlq"} THEN NoJob ELSE d[j]]

\* purge_completed's filtered document
Purged(d) == [j \in JobIds |-> IF d[j].state = "completed" THEN NoJob ELSE d[j]]

MinOf(S) == CHOOSE x \in S : \A y \in S : x <= y

\* ---------------------------------------------------------------- Config
\* Config.__init__ up to line 26: the environment variable, or the default
ConfigInit(env) == IF env # Absent THEN env ELSE DefaultBackoffBase

\* _load_saved_config: a backoff_base in data/config.json overrides
LoadSavedConfig(base, saved) == IF saved # Absent THEN saved ELSE base

\* worker_start: config.backoff_base = backoff_base, the option's value, which
\* is its default when --backoff-base is not given
WorkerStart(base, flag) == IF flag # Absent THEN flag ELSE FlagDefault

\* _cfg_from_primitives in the child: setattr(cfg, "backoff_base", v) puts
\* the parent's value v over the one the child's own Config() came up with
CfgFromPrimitives(cfg, v) == v

\* config.backoff_base in a worker process: Config() and worker_start in the
\* parent, Config() and _cfg_from_primitives in the child
WorkerBackoffBase(env, saved, flag) ==
    CfgFromPrimitives(LoadSavedConfig(ConfigInit(env), saved),
                      WorkerStart(LoadSavedConfig(ConfigInit(env), saved), flag))

\* ------------------------------------------------- config set / config get
\* the keys of the CLI (key_mapping's and canonical_map's) and the attributes
\* of a Config object
CliKeys == {"max-retries", "backoff-base", "poll-interval", "timeout"}
CanonicalKeys == {"default_max_retries", "backoff_base", "poll_interval",
                  "default_timeout", "db_path", "log_level", "log_file"}

\* every name alias_map holds, and the names replace() makes of the others
Names == CliKeys \cup CanonicalKeys \cup
         {"max_retries", "backoffbase", "pollinterval", "default-timeout",
          "defaulttimeout", "db-path", "log-level", "log-file"}

\* a value in config.json or in a Config attribute: a number (int or float)
\* or a text; v is the number, or stands for the text
Number(n) == [num |-> TRUE, v |-> n]
Text(t) == [num |-> FALSE, v |-> t]

\* key_mapping.get(key, key) of config_set and the canonical_map of
\* config_get
key_mapping(k) ==
    CASE k = "max-retries" -> "default_max_retries"
      [] k = "backoff-base" -> "backoff_base"
      [] k = "poll-interval" -> "poll_interval"
      [] k = "timeout" -> "default_timeout"
      [] OTHER -> k

\* alias_map.get(canonical): the list, or <<>> for a key it does not hold
alias_map(c) ==
    CASE c = "default_max_retries" ->
              <<"default_max_retries", "max-retries", "max_retries">>
      [] c = "backoff_base" -> <<"backoff_base", "backoff-base", "backoffbase">>
      [] c = "poll_interval" ->
              <<"poll_interval", "poll-interval", "pollinterval">>
      [] c = "default_timeout" ->
              <<"default_timeout", "default-timeout", "defaulttimeout", "timeout">>
      [] OTHER -> <<>>

\* k.replace('_', '-')
Dashes(k) ==
    CASE k = "default_max_retries" -> "default-max-retries"
      [] k = "max_retries" -> "max-retries"
      [] k = "backoff_base" -> "backoff-base"
      [] k = "poll_interval" -> "poll-interval"
      [] k = "default_timeout" -> "default-timeout"
      [] k = "db_path" -> "db-path"
      [] k = "log_level" -> "log-level"
      [] k = "log_file" -> "log-file"
      [] OTHER -> k

\* k.replace('-', '_')
Underscores(k) ==
    CASE k = "default-max-retries" -> "default_max_retries"
      [] k = "max-retries" -> "max_retries"
      [] k = "backoff-base" -> "backoff_base"
      [] k = "poll-interval" -> "poll_interval"
      [] k = "default-timeout" -> "default_timeout"
      [] k = "db-path" -> "db_path"
      [] k = "log-level" -> "log_level"
      [] k = "log-file" -> "log_file"
      [] OTHER -> k

\* list(S) of a set of strings: its elements in whatever order the
\* interpreter's hashing gives them
Orders(S) ==
    {s \in [1..Cardinality(S) -> S] : {s[i] : i \in DOMAIN s} = S}

\* 'a in config_data' and config_data[a]
InFile(file, a) == \E i \in DOMAIN file : file[i].key = a
ValueIn(file, a) == file[CHOOSE i \in DOMAIN file : file[i].key = a].value

\* config_data[a] = value: an existing key keeps its place, a new one goes
\* to the end
Put(file, a, value) ==
    IF InFile(file, a)
    THEN [i \in DOMAIN file |->
            IF file[i].key = a THEN [key |-> a, value |-> value] ELSE file[i]]
    ELSE Append(file, [key |-> a, value |-> value])

\* for a in aliases: config_data[a] = value
RECURSIVE PutAll(_, _, _)
PutAll(file, aliases, value) ==
    IF aliases = <<>> THEN file
    ELSE PutAll(Put(file, Head(aliases), value), Tail(aliases), value)

\* config_set's aliases: the orders the list may have
SetAliases(key) ==
    LET canonical == key_mapping(key) IN
    IF alias_map(canonical) # <<>> THEN {alias_map(canonical)}
    ELSE Orders({canonical, Dashes(canonical), Underscores(canonical)})

\* config_set's 'Validate & cast': int(value) or float(value) of a text that
\* is no number raises ValueError (Invalid); another key's value stays a text
Invalid == Text(NotANumber)
Cast(canonical, value) ==
    IF canonical \in {"default_max_retries", "backoff_base", "default_timeout",
                      "poll_interval"}
    THEN IF value = NotANumber THEN Invalid ELSE Number(value)
    ELSE Text(value)

\* the file config_set writes, with the aliases in the given order
ConfigSetFile(file, key, value, aliases) ==
    IF Cast(key_mapping(key), value) = Invalid THEN file
    ELSE PutAll(file, aliases, Cast(key_mapping(key), value))

\* Config.__init__ and _load_saved_config: the environment variable or the
\* compiled default, then the file's value for the four keys the loader
\* looks up
Default(c) ==
    CASE c = "default_max_retries" -> Number(DefaultMaxRetries)
      [] c = "backoff_base" -> Number(DefaultBackoffBase)
      [] c = "poll_interval" -> Number(DefaultPollInterval)
      [] c = "default_timeout" -> Number(DefaultTimeout)
      [] c = "db_path" -> Text(DefaultDbPath)
      [] c = "log_level" -> Text(DefaultLogLevel)
      [] c = "log_file" -> Text(DefaultLogFile)

Config(env, file) ==
    [c \in CanonicalKeys |->
        IF c \in {"default_max_retries", "backoff_base", "poll_interval",
                  "default_timeout"} /\ InFile(file, c)
        THEN ValueIn(file, c)
        ELSE IF env = Absent THEN Default(c)
        ELSE IF Default(c).num THEN Number(env) ELSE Text(env)]

\* key.lower().replace('-', '').replace('_', '')
Norm(k) ==
    CASE k \in {"default_max_retries", "default-max-retries"} -> "defaultmaxretries"
      [] k \in {"max-retries", "max_retries"} -> "maxretries"
      [] k \in {"backoff_base", "backoff-base"} -> "backoffbase"
      [] k \in {"poll_interval", "poll-interval"} -> "pollinterval"
      [] k \in {"default_timeout", "default-timeout"} -> "defaulttimeout"
      [] k \in {"db_path", "db-path"} -> "dbpath"
      [] k \in {"log_level", "log-level"} -> "loglevel"
      [] k \in {"log_file", "log-file"} -> "logfile"
      [] OTHER -> k

\* 'a in b' of two normalised names
Within(a, b) ==
    \/ a = b
    \/ a = "maxretries" /\ b = "defaultmaxretries"
    \/ a = "timeout" /\ b = "defaulttimeout"

\* _heuristic_value_from_file: the first number in the file whose key
\* resembles the requested one or holds 'retry', 'backoff', 'interval' or
\* 'timeout'; None (Text(Null)) without one
Resembles(kn, norm) ==
    \/ Within(norm, kn)
    \/ Within(kn, norm)
    \/ kn \in {"backoffbase", "pollinterval", "defaulttimeout", "timeout"}

Heuristic(file, key) ==
    LET hits == {i \in DOMAIN file :
                    file[i].value.num /\ Resembles(Norm(file[i].key), Norm(key))}
    IN IF hits = {} THEN Text(Null)
       ELSE file[CHOOSE i \in hits : \A j \in hits : i <= j].value

\* config_get's aliases for a key: the orders the list may have
GetAliases(key) ==
    LET canonical == IF key \in CliKeys THEN key_mapping(key)
                     ELSE Underscores(key)
    IN IF alias_map(canonical) # <<>> THEN {alias_map(canonical)}
       ELSE Orders({canonical, Dashes(canonical), Underscores(canonical), key,
                    Underscores(key)})

\* config_get of a key: the file's value under the first alias it holds, else
\* the heuristic's, else the Config attribute, else 'Not set'
ConfigGetFound(file, cfg, key, aliases) ==
    LET canonical == IF key \in CliKeys THEN key_mapping(key)
                     ELSE Underscores(key)
        held == {i \in DOMAIN aliases : InFile(file, aliases[i])}
    IN IF held # {}
       THEN ValueIn(file, aliases[CHOOSE i \in held : \A j \in held : i <= j])
       ELSE IF Heuristic(file, key) # Text(Null) THEN Heuristic(file, key)
       ELSE IF canonical \in CanonicalKeys THEN cfg[canonical]
       ELSE Text(NotSet)

\* the keys SpecSettings' config set is given: a CLI alias or a canonical name
SettingsKeys == CliKeys \cup CanonicalKeys

\* what a CLI command echoed: the command, its key and the value it shows
NoOut == [cmd |-> "none", key |-> "", value |-> Text(Null), state |-> ""]

\* ---------------------------------------------------------- _execute_job
\* enqueue's 'if timeout: job["timeout"] = timeout': None and 0 leave the job
\* without the key
StoredTimeout(timeout) == IF timeout \in {Absent, 0} THEN Absent ELSE timeout

\* a timeout taken from the job alone
OwnTimeout(job_timeout, default_timeout) == job_timeout

\* timeout = job.get("timeout") or getattr(self.config, "default_timeout", None)
EffectiveTimeout(job_timeout, default_timeout) ==
    IF job_timeout \in {Absent, 0} THEN default_timeout ELSE job_timeout

\* subprocess.run's timeout=timeout if (timeout and timeout > 0) else None
TimeLimit(timeout) == IF timeout > 0 THEN timeout ELSE Null

\* how _execute_job ends for a command that would run 'duration' seconds and
\* exit with 'code': TimeoutExpired when it outlives the limit, else
\* mark_completed or mark_failed by the exit code
ExecuteJobEnd(job_timeout, default_timeout, duration, code) ==
    LET timeout == EffectiveTimeout(job_timeout, default_timeout) IN
    IF TimeLimit(timeout) # Null /\ duration > TimeLimit(timeout)
    THEN [call |-> "mark_failed", error |-> "timed out", after |-> timeout]
    ELSE IF code = 0 THEN [call |-> "mark_completed", error |-> "", after |-> Null]
    ELSE [call |-> "mark_failed", error |-> "err", after |-> Null]

NoExecution == [pc |-> "none", given |-> Absent, timeout |-> Absent, duration |-> 0,
                code |-> 0, call |-> "none", error |-> "", after |-> Null]

\* ------------------------------------------------------------------ Init
\* _init_db has written {'jobs': {}}; WorkerPool.start has spawned its
\* num_workers processes (worker start --count)
Start ==
    /\ torn = FALSE
    /\ disk = EmptyDoc
    /\ committed = EmptyDoc
    /\ now = 0
    /\ pc = [p \in Procs |-> IF p = Client THEN "idle"
                             ELSE IF p <= lim.workers THEN "poll" ELSE "dead"]
    /\ op = [p \in Procs |-> "none"]
    /\ db = [p \in Procs |-> EmptyDoc]
    /\ job = [p \in Procs |-> NoJob]
    /\ arg = [p \in Procs |-> NoId]
    /\ cur = [p \in Procs |-> NoId]
    /\ rlist = [p \in Procs |-> {}]
    /\ loadErr = [p \in Procs |-> FALSE]
    /\ issued = 0
    /\ calls = 0
    /\ kills = 0
    /\ claims = 0
    /\ args = NoArgs
    /\ ret = <<>>
    /\ running = [p \in Procs |-> TRUE]
    /\ pool = [pc |-> "join", i |-> 1, start_time |-> 0]
    /\ config_data = <<>>
    /\ out = NoOut
    /\ execution = NoExecution

Init ==
    /\ lim = [workers |-> NumWorkers, backoff |-> SpecBackoff, jobs |-> SpecJobs,
              calls |-> MaxAdminCalls, kills |-> MaxKills, claims |-> SpecClaims,
              time |-> SpecTime, priorities |-> SpecPriorities,
              retries |-> MaxRetriesInputs, runats |-> SpecRunAts]
    /\ Start

\* the worker loop and enqueue alone: no admin command, no kill
InitQueue ==
    /\ lim = [workers |-> NumWorkers, backoff |-> QueueBackoff, jobs |-> QueueJobs,
              calls |-> 0, kills |-> 0, claims |-> QueueClaims,
              time |-> QueueTime, priorities |-> QueuePriorities,
              retries |-> QueueRetries, runats |-> QueueRunAts]
    /\ Start

\* worker start --count 1, three jobs
InitOrder ==
    /\ lim = [workers |-> OrderWorkers, backoff |-> OrderBackoff, jobs |-> OrderJobs,
              calls |-> 0, kills |-> 0, claims |-> OrderClaims,
              time |-> OrderTime, priorities |-> OrderPriorities,
              retries |-> OrderRetries, runats |-> OrderRunAts]
    /\ Start

\* a failing job, two workers, one dlq retry
InitFail ==
    /\ lim = [workers |-> NumWorkers, backoff |-> FailBackoff, jobs |-> FailJobs,
              calls |-> MaxAdminCalls, kills |-> 0, claims |-> FailClaims,
              time |-> FailTime, priorities |-> SpecPriorities,
              retries |-> MaxRetriesInputs, runats |-> FailRunAts]
    /\ Start

\* one worker, jobs enqueued with any --run-at
InitSchedule ==
    /\ lim = [workers |-> SchedWorkers, backoff |-> SchedBackoff, jobs |-> SchedJobs,
              calls |-> 0, kills |-> 0, claims |-> SchedClaims,
              time |-> SchedTime, priorities |-> SchedPriorities,
              retries |-> SchedRetries, runats |-> RunAtInputs]
    /\ Start

\* one worker whose commands exit 0; the client enqueues, cancels, purges and
\* reads
InitReport ==
    /\ lim = [workers |-> ReportWorkers, backoff |-> ReportBackoff, jobs |-> ReportJobs,
              calls |-> ReportCalls, kills |-> 0, claims |-> ReportClaims,
              time |-> ReportTime, priorities |-> ReportPriorities,
              retries |-> ReportRetries, runats |-> ReportRunAts]
    /\ Start

\* one worker that is sent a shutdown signal at any time
InitShutdown ==
    /\ lim = [workers |-> ShutWorkers, backoff |-> ShutBackoff, jobs |-> ShutJobs,
              calls |-> 0, kills |-> 0, claims |-> ShutClaims,
              time |-> ShutTime, priorities |-> ShutPriorities,
              retries |-> ShutRetries, runats |-> ShutRunAts]
    /\ Start

\* worker start --count 2, interrupted at any time
InitPool ==
    /\ lim = [workers |-> PoolWorkers, backoff |-> PoolBackoff, jobs |-> PoolJobs,
              calls |-> 0, kills |-> 0, claims |-> PoolClaims,
              time |-> PoolTime, priorities |-> PoolPriorities,
              retries |-> PoolRetries, runats |-> PoolRunAts]
    /\ Start

\* worker start --count 1 under any configuration
InitConfig ==
    /\ \E env \in EnvInputs, saved \in SavedInputs, flag \in FlagInputs :
          lim = [workers |-> ConfigWorkers,
                 backoff |-> WorkerBackoffBase(env, saved, flag),
                 jobs |-> ConfigJobs, calls |-> 0, kills |-> 0,
                 claims |-> ConfigClaims, time |-> ConfigTime,
                 priorities |-> ConfigPriorities, retries |-> ConfigRetries,
                 runats |-> ConfigRunAts,
                 env |-> env, saved |-> saved, flag |-> flag]
    /\ Start

\* no worker and no job: the configuration commands under either environment
InitSettings ==
    /\ \E env \in EnvInputs :
          lim = [workers |-> 0, backoff |-> DefaultBackoffBase, jobs |-> 0,
                 calls |-> SettingsCalls, kills |-> 0, claims |-> 0, time |-> 0,
                 priorities |-> {}, retries |-> {}, runats |-> {}, env |-> env]
    /\ Start

\* one job and one execution of it, under each default_timeout
InitExecute ==
    /\ \E default_timeout \in DefaultTimeoutInputs :
          lim = [workers |-> 0, backoff |-> DefaultBackoffBase, jobs |-> 0,
                 calls |-> 0, kills |-> 0, claims |-> 0, time |-> 0,
                 priorities |-> {}, retries |-> {}, runats |-> {},
                 default_timeout |-> default_timeout]
    /\ Start

\* where a process goes when its JobManager call returns
\* (o: the operation, rl: what is left of the worker's retry loop)
AfterOp(p, o, rl) ==
    IF p = Client THEN "idle"
    ELSE CASE o = "reset" -> IF rl = {} THEN "claim" ELSE "reset"
           [] o = "claim" -> "exec"
           [] OTHER       -> "poll"

\* the call returns: its locals are dropped; get_next_job's result becomes
\* Worker.current_job, and _execute_job's return clears it
Return(p, o, rl) ==
    /\ op' = [op EXCEPT ![p] = "none"]
    /\ db' = [db EXCEPT ![p] = EmptyDoc]
    /\ job' = [job EXCEPT ![p] = NoJob]
    /\ loadErr' = [loadErr EXCEPT ![p] = FALSE]
    /\ cur' = [cur EXCEPT ![p] = IF o = "claim" THEN arg[p]
                                 ELSE IF o \in {"complete", "fail"} THEN NoId
                                 ELSE @]
    /\ arg' = [arg EXCEPT ![p] = NoId]
    /\ args' = IF p = Client THEN NoArgs ELSE args

\* a call that loaded a document, changed it to d and goes on to _save_db
ToSave(p, o, j, d, fail) ==
    /\ pc' = [pc EXCEPT ![p] = "save"]
    /\ op' = [op EXCEPT ![p] = o]
    /\ arg' = [arg EXCEPT ![p] = j]
    /\ db' = [db EXCEPT ![p] = d]
    /\ loadErr' = [loadErr EXCEPT ![p] = fail]

\* the CLI's enqueue, once job_manager.enqueue has returned: the "state" of
\* the JSON it echoes is "scheduled" if run_at else "pending"
EnqueueEcho(run_at) ==
    [NoOut EXCEPT !.cmd = "enqueue",
                  !.state = IF run_at # Absent THEN "scheduled" ELSE "pending"]

\* ---------------------------------------------------------------- Store
\* _save_db: open(self.db_path, 'w') truncates, json.dump and close write the
\* document from offset 0.  A process that was inside _save_db while this one
\* wrote may have truncated before: its own bytes then land over these
\* ("resave"), and the tail of the longer document stays behind the shorter one.
SaveDb(p) ==
    /\ pc[p] \in Saving
    /\ \E garbled \in IF pc[p] = "resave" /\ db[p] # disk THEN {FALSE, TRUE}
                      ELSE {FALSE} :
          /\ torn' = garbled
          /\ disk' = IF garbled THEN EmptyDoc ELSE db[p]
          /\ committed' = IF garbled THEN committed ELSE db[p]
    /\ pc' = [q \in Procs |->
                IF q = p THEN AfterOp(p, op[p], rlist[p])
                ELSE IF pc[q] \in Saving THEN "resave" ELSE pc[q]]
    /\ Return(p, op[p], rlist[p])
    /\ out' = IF p = Client /\ op[p] = "enqueue" THEN EnqueueEcho(args.run_at) ELSE out
    /\ UNCHANGED <<now, rlist, issued, calls, kills, claims, lim, ret, running, pool,
                   config_data, execution>>

\* ------------------------------------------------------------ JobManager
\* enqueue (the client): build the job, load, insert, save
Enqueue(priority, max_retries, run_at) ==
    /\ pc[Client] = "idle"
    /\ issued < lim.jobs
    /\ priority \in lim.priorities
    /\ max_retries \in lim.retries
    /\ run_at \in lim.runats
    /\ issued' = issued + 1
    /\ args' = [priority |-> priority, max_retries |-> max_retries, run_at |-> run_at]
    /\ \E fail \in LoadFails(Client) :
          ToSave(Client, "enqueue", issued + 1,
                 [LoadDb(fail) EXCEPT ![issued + 1] =
                     NewJob(priority, max_retries, run_at, now)], fail)
    /\ UNCHANGED <<torn, disk, committed, now, job, cur, rlist, calls, kills, claims, lim, ret, running, pool, config_data, out, execution>>

\* update_job: load, return when the id is unknown, else update and save
UpdateJob(p, o, j, rl) ==
    \E fail \in LoadFails(p) :
        IF Has(LoadDb(fail), j)
        THEN /\ ToSave(p, o, j, UpdatedDoc(LoadDb(fail), j, o, now), fail)
             /\ UNCHANGED <<job, cur, args>>
        ELSE /\ pc' = [pc EXCEPT ![p] = AfterOp(p, o, rl)]
             /\ Return(p, o, rl)

\* cancel_job, retry_job: get_job and the state check; update_job follows
AdminGet(o, j) ==
    /\ pc[Client] = "idle"
    /\ o \in {"cancel", "retry"}
    /\ calls < lim.calls
    /\ \E fail \in LoadFails(Client) :
          IF LoadDb(fail)[j].state \in
                (IF o = "cancel" THEN {"pending", "scheduled"} ELSE {"failed", "dlq"})
          THEN /\ calls' = calls + 1
               /\ pc' = [pc EXCEPT ![Client] = "update"]
               /\ op' = [op EXCEPT ![Client] = o]
               /\ arg' = [arg EXCEPT ![Client] = j]
               /\ loadErr' = [loadErr EXCEPT ![Client] = fail]
          ELSE UNCHANGED <<pc, op, arg, loadErr, calls>>
    /\ UNCHANGED <<torn, disk, committed, now, db, job, cur, rlist, issued, kills, claims,
                   args, lim, ret, running, pool, config_data, out, execution>>

\* cancel_job, retry_job: the update_job call
AdminUpdate ==
    /\ pc[Client] = "update"
    /\ UpdateJob(Client, op[Client], arg[Client], {})
    /\ UNCHANGED <<torn, disk, committed, now, rlist, issued, calls, kills, claims, lim, ret, running, pool, config_data, out, execution>>

\* purge_completed: load, drop the completed jobs, save; before_count -
\* after_count is what it returns
PurgeCompleted ==
    /\ pc[Client] = "idle"
    /\ calls < lim.calls
    /\ calls' = calls + 1
    /\ \E fail \in LoadFails(Client) :
          /\ ToSave(Client, "purge", NoId, Purged(LoadDb(fail)), fail)
          /\ ret' = Append(ret, [NoRet EXCEPT !.call = "purge",
                                              !.count = Size(LoadDb(fail))
                                                        - Size(Purged(LoadDb(fail)))])
    /\ UNCHANGED <<torn, disk, committed, now, job, cur, rlist, issued, kills, claims,
                   args, lim, running, pool, config_data, out, execution>>

\* get_stats: load, count
GetStats ==
    /\ pc[Client] = "idle"
    /\ calls < lim.calls
    /\ calls' = calls + 1
    /\ \E fail \in LoadFails(Client) :
          ret' = Append(ret, [NoRet EXCEPT !.call = "stats",
                                           !.stats = StatsOf(LoadDb(fail))])
    /\ UNCHANGED <<torn, disk, committed, now, pc, op, db, job, arg, cur, rlist, loadErr,
                   issued, kills, claims, args, lim, running, pool, config_data, out, execution>>

\* list_jobs: load, filter, sort, cut
ListJobs(st, limit) ==
    /\ pc[Client] = "idle"
    /\ calls < lim.calls
    /\ calls' = calls + 1
    /\ \E fail \in LoadFails(Client) :
          ret' = Append(ret, [NoRet EXCEPT !.call = "list", !.state = st,
                                           !.limit = limit,
                                           !.jobs = ListJobsOf(LoadDb(fail), st, limit)])
    /\ UNCHANGED <<torn, disk, committed, now, pc, op, db, job, arg, cur, rlist, loadErr,
                   issued, kills, claims, args, lim, running, pool, config_data, out, execution>>

\* ---------------------------------------------------------------- Worker
\* Worker.run, top of the loop: 'while self.running', then
\* get_retryable_jobs(); a TypeError in it is caught by the loop's except,
\* which sleeps and starts over
Poll(w) ==
    /\ pc[w] = "poll"
    /\ running[w]
    /\ \E fail \in LoadFails(w) :
          IF RetryableRaises(LoadDb(fail))
          THEN UNCHANGED <<pc, rlist>>
          ELSE /\ rlist' = [rlist EXCEPT ![w] = Retryable(LoadDb(fail), now)]
               /\ pc' = [pc EXCEPT ![w] =
                            IF Retryable(LoadDb(fail), now) = {} THEN "claim"
                            ELSE "reset"]
    /\ UNCHANGED <<torn, disk, committed, now, op, db, job, arg, cur, loadErr,
                   issued, calls, kills, claims, args, lim, ret, running, pool, config_data, out, execution>>

\* the loop's reset_for_retry(job["id"]) for the next id of the list
ResetForRetry(w) ==
    /\ pc[w] = "reset"
    /\ rlist[w] # {}
    /\ rlist' = [rlist EXCEPT ![w] = @ \ {MinOf(rlist[w])}]
    /\ UpdateJob(w, "reset", MinOf(rlist[w]), rlist[w] \ {MinOf(rlist[w])})
    /\ UNCHANGED <<torn, disk, committed, now, issued, calls, kills, claims, lim, ret, running, pool, config_data, out, execution>>

\* get_next_job: load, collect, sort, lock the head; None sends the loop to sleep
GetNextJob(w) ==
    /\ pc[w] = "claim"
    /\ \E fail \in LoadFails(w) :
          IF Candidates(LoadDb(fail), now) = {}
          THEN /\ pc' = [pc EXCEPT ![w] = "poll"]
               /\ UNCHANGED <<op, arg, db, loadErr, claims>>
          ELSE /\ claims < lim.claims
               /\ claims' = claims + 1
               /\ ToSave(w, "claim", SortedHead(LoadDb(fail), now),
                         Claimed(LoadDb(fail), SortedHead(LoadDb(fail), now), w, now),
                         fail)
    /\ UNCHANGED <<torn, disk, committed, now, job, cur, rlist, issued, calls, kills,
                   args, lim, ret, running, pool, config_data, out, execution>>

\* _execute_job, exit code 0: mark_completed, which is an update_job
MarkCompleted(w) ==
    /\ pc[w] = "exec"
    /\ UpdateJob(w, "complete", cur[w], {})
    /\ UNCHANGED <<torn, disk, committed, now, rlist, issued, calls, kills, claims, lim, ret, running, pool, config_data, out, execution>>

\* _execute_job, any failure: mark_failed up to line 236 (get_job, the counters)
MarkFailedGet(w) ==
    /\ pc[w] = "exec"
    /\ \E fail \in LoadFails(w) :
          IF Has(LoadDb(fail), cur[w])
          THEN /\ LoadDb(fail)[cur[w]].attempts < MaxAttempts
               /\ pc' = [pc EXCEPT ![w] = "fail_load"]
               /\ op' = [op EXCEPT ![w] = "fail"]
               /\ arg' = [arg EXCEPT ![w] = cur[w]]
               /\ job' = [job EXCEPT ![w] = FailedJob(LoadDb(fail)[cur[w]], now, lim.backoff)]
               /\ loadErr' = [loadErr EXCEPT ![w] = fail]
               /\ UNCHANGED <<db, cur, args>>
          ELSE /\ pc' = [pc EXCEPT ![w] = "poll"]
               /\ Return(w, "fail", {})
    /\ UNCHANGED <<torn, disk, committed, now, rlist, issued, calls, kills, claims, lim, ret, running, pool, config_data, out, execution>>

\* mark_failed, lines 238-241: load again, store the local job, save
MarkFailedSave(w) ==
    /\ pc[w] = "fail_load"
    /\ \E fail \in LoadFails(w) :
          ToSave(w, "fail", arg[w],
                 [LoadDb(fail) EXCEPT ![arg[w]] = [job[w] EXCEPT !.updated_at = now]],
                 fail)
    /\ UNCHANGED <<torn, disk, committed, now, job, cur, rlist, issued, calls, kills, claims,
                   args, lim, ret, running, pool, config_data, out, execution>>

\* process.kill(): the worker dies wherever it is, and the pool does not
\* respawn it.  Killed inside _save_db, it may have truncated the file.
Killed(w) ==
    /\ \E truncated \in IF pc[w] \in Saving THEN {FALSE, TRUE} ELSE {FALSE} :
          /\ torn' = (torn \/ truncated)
          /\ disk' = IF truncated THEN EmptyDoc ELSE disk
    /\ pc' = [pc EXCEPT ![w] = "dead"]
    /\ op' = [op EXCEPT ![w] = "none"]
    /\ db' = [db EXCEPT ![w] = EmptyDoc]
    /\ job' = [job EXCEPT ![w] = NoJob]
    /\ arg' = [arg EXCEPT ![w] = NoId]
    /\ cur' = [cur EXCEPT ![w] = NoId]
    /\ rlist' = [rlist EXCEPT ![w] = {}]
    /\ loadErr' = [loadErr EXCEPT ![w] = FALSE]
    /\ UNCHANGED <<committed, now, issued, calls, claims, args, lim, ret, running, config_data, out, execution>>

\* a force-kill of worker w at any time
Kill(w) ==
    /\ pc[w] \notin {"dead", "exited"}
    /\ kills < lim.kills
    /\ kills' = kills + 1
    /\ Killed(w)
    /\ UNCHANGED pool

\* ------------------------------------------------------------ WorkerPool
\* process.is_alive()
Alive(w) == pc[w] \notin {"dead", "exited"}

\* stop's remaining_time when its clock reads t, counted from the call of stop
\* for every process alike
RemainingFresh(t) == GraceWindow

\* stop's remaining_time = timeout - (time.time() - start_time)
Remaining(t) == GraceWindow - (t - pool.start_time)

\* where a loop over self.processes goes after process i: the next process,
\* or the statement after the loop
PoolNext(i, after) ==
    IF i < lim.workers THEN [pool EXCEPT !.i = i + 1]
    ELSE [pool EXCEPT !.pc = after, !.i = 1]

\* WorkerPool.start's 'for process in self.processes: process.join()': the
\* join of process i returns once that worker is gone
StartJoin ==
    /\ pool.pc = "join"
    /\ ~Alive(pool.i)
    /\ pool' = PoolNext(pool.i, "returned")
    /\ UNCHANGED <<torn, disk, committed, now, pc, op, db, job, arg, cur, rlist, loadErr,
                   issued, calls, kills, claims, args, lim, ret, running, config_data, out, execution>>

\* SIGINT reaches the process blocked in start: signal_handler calls stop
Interrupt ==
    /\ pool.pc = "join"
    /\ pool' = [pool EXCEPT !.pc = "terminate", !.i = 1]
    /\ UNCHANGED <<torn, disk, committed, now, pc, op, db, job, arg, cur, rlist, loadErr,
                   issued, calls, kills, claims, args, lim, ret, running, config_data, out, execution>>

\* stop's first loop: process.terminate() for process i when it is alive,
\* which sends it SIGTERM; after the loop start_time = time.time()
StopTerminate ==
    /\ pool.pc = "terminate"
    /\ running' = [running EXCEPT ![pool.i] = IF Alive(pool.i) THEN FALSE ELSE @]
    /\ pool' = IF pool.i < lim.workers THEN [pool EXCEPT !.i = pool.i + 1]
               ELSE [pool EXCEPT !.pc = "wait", !.i = 1, !.start_time = now]
    /\ UNCHANGED <<torn, disk, committed, now, pc, op, db, job, arg, cur, rlist, loadErr,
                   issued, calls, kills, claims, args, lim, ret, config_data, out, execution>>

\* stop's second loop at process i, which is gone: nothing to wait for, nothing
\* to kill
StopJoined ==
    /\ pool.pc = "wait"
    /\ ~Alive(pool.i)
    /\ pool' = PoolNext(pool.i, "stopped")
    /\ UNCHANGED <<torn, disk, committed, now, pc, op, db, job, arg, cur, rlist, loadErr,
                   issued, calls, kills, claims, args, lim, ret, running, config_data, out, execution>>

\* process.join(timeout=remaining_time) runs out with process i still alive:
\* remaining_time has passed
StopJoinTimeout ==
    /\ pool.pc = "wait"
    /\ Alive(pool.i)
    /\ Remaining(now) > 0
    /\ now' = now + Remaining(now)
    /\ UNCHANGED <<torn, disk, committed, pc, op, db, job, arg, cur, rlist, loadErr,
                   issued, calls, kills, claims, args, lim, ret, running, pool, config_data, out, execution>>

\* process i is still alive and no time remains: process.kill(), process.join()
StopKill ==
    /\ pool.pc = "wait"
    /\ Alive(pool.i)
    /\ Remaining(now) <= 0
    /\ Killed(pool.i)
    /\ pool' = PoolNext(pool.i, "stopped")
    /\ UNCHANGED kills

\* _signal_handler: SIGINT or SIGTERM reaches worker w, wherever it is
Signal(w) ==
    /\ pc[w] \notin {"dead", "exited"}
    /\ running[w]
    /\ running' = [running EXCEPT ![w] = FALSE]
    /\ UNCHANGED <<torn, disk, committed, now, pc, op, db, job, arg, cur, rlist, loadErr,
                   issued, calls, kills, claims, args, lim, ret, pool, config_data, out, execution>>

\* Worker.run, top of the loop with self.running false: the loop ends, run
\* returns and the process exits
Exit(w) ==
    /\ pc[w] = "poll"
    /\ ~running[w]
    /\ pc' = [pc EXCEPT ![w] = "exited"]
    /\ UNCHANGED <<torn, disk, committed, now, op, db, job, arg, cur, rlist, loadErr,
                   issued, calls, kills, claims, args, lim, ret, running, pool, config_data, out, execution>>

\* the wall clock advances
Tick ==
    /\ now < lim.time
    /\ now' = now + 1
    /\ UNCHANGED <<torn, disk, committed, pc, op, db, job, arg, cur, rlist, loadErr,
                   issued, calls, kills, claims, args, lim, ret, running, pool, config_data, out, execution>>

\* ------------------------------------------------------------ config
\* config set <key> <value>: the value goes under every alias, or the command
\* stops at a value it cannot cast
ConfigSet(key, value) ==
    /\ calls < lim.calls
    /\ calls' = calls + 1
    /\ \E aliases \in SetAliases(key) :
          config_data' = ConfigSetFile(config_data, key, value, aliases)
    /\ out' = [NoOut EXCEPT !.cmd = IF Cast(key_mapping(key), value) = Invalid
                                    THEN "invalid" ELSE "set",
                            !.key = key,
                            !.value = Cast(key_mapping(key), value)]
    /\ UNCHANGED <<torn, disk, committed, now, pc, op, db, job, arg, cur, rlist, loadErr,
                   issued, kills, claims, args, lim, ret, running, pool, execution>>

\* config get <key>, in a process whose Config() has read the file
ConfigGet(key) ==
    /\ \E aliases \in GetAliases(key) :
          out' = [NoOut EXCEPT !.cmd = "get", !.key = key,
                              !.value = ConfigGetFound(config_data,
                                            Config(lim.env, config_data),
                                            key, aliases)]
    /\ UNCHANGED <<torn, disk, committed, now, pc, op, db, job, arg, cur, rlist, loadErr,
                   issued, calls, kills, claims, args, lim, ret, running, pool,
                   config_data, execution>>

\* ---------------------------------------------------------- execution
\* enqueue --timeout: the job the worker will be handed
EnqueueTimeout(timeout) ==
    /\ execution.pc = "none"
    /\ execution' = [NoExecution EXCEPT !.pc = "enqueued", !.given = timeout,
                                        !.timeout = StoredTimeout(timeout)]
    /\ UNCHANGED <<torn, disk, committed, now, pc, op, db, job, arg, cur, rlist, loadErr,
                   issued, calls, kills, claims, args, lim, ret, running, pool,
                   config_data, out>>

\* _execute_job of that job, its command running for 'duration' seconds
\* unless killed and exiting with 'code'
ExecuteJob(duration, code) ==
    /\ execution.pc = "enqueued"
    /\ LET end == ExecuteJobEnd(execution.timeout, lim.default_timeout,
                                duration, code)
       IN execution' = [execution EXCEPT !.pc = "executed", !.duration = duration,
                                         !.code = code, !.call = end.call,
                                         !.error = end.error, !.after = end.after]
    /\ UNCHANGED <<torn, disk, committed, now, pc, op, db, job, arg, cur, rlist, loadErr,
                   issued, calls, kills, claims, args, lim, ret, running, pool,
                   config_data, out>>

\* the store, enqueue and the worker loop
NextQueue ==
    \/ \E p \in Procs : SaveDb(p)
    \/ \E pr \in PriorityInputs, mr \in MaxRetriesInputs, ra \in RunAtInputs :
          Enqueue(pr, mr, ra)
    \/ \E w \in Workers : Poll(w)
    \/ \E w \in Workers : ResetForRetry(w)
    \/ \E w \in Workers : GetNextJob(w)
    \/ \E w \in Workers : MarkCompleted(w)
    \/ \E w \in Workers : MarkFailedGet(w)
    \/ \E w \in Workers : MarkFailedSave(w)
    \/ Tick

\* the admin commands of the CLI and the pool's force-kill
NextAdmin ==
    \/ \E o \in {"cancel", "retry"}, j \in JobIds : AdminGet(o, j)
    \/ AdminUpdate
    \/ PurgeCompleted
    \/ \E w \in Workers : Kill(w)

Next == NextQueue \/ NextAdmin

Spec == Init /\ [][Next]_vars

SpecQueue == InitQueue /\ [][NextQueue]_vars

SpecOrder == InitOrder /\ [][NextQueue]_vars

SpecSchedule == InitSchedule /\ [][NextQueue]_vars

\* every command exits non-zero (_execute_job always ends in mark_failed); the
\* client enqueues and runs dlq retry
NextFail ==
    \/ \E p \in Procs : SaveDb(p)
    \/ \E pr \in PriorityInputs, mr \in MaxRetriesInputs, ra \in RunAtInputs :
          Enqueue(pr, mr, ra)
    \/ \E w \in Workers : Poll(w)
    \/ \E w \in Workers : ResetForRetry(w)
    \/ \E w \in Workers : GetNextJob(w)
    \/ \E w \in Workers : MarkFailedGet(w)
    \/ \E w \in Workers : MarkFailedSave(w)
    \/ \E j \in JobIds : AdminGet("retry", j)
    \/ AdminUpdate
    \/ Tick

SpecFail == InitFail /\ [][NextFail]_vars

\* every command exits 0; the client enqueues, cancels, purges, and reads
\* the store with status and list
NextReport ==
    \/ \E p \in Procs : SaveDb(p)
    \/ \E pr \in PriorityInputs, mr \in MaxRetriesInputs, ra \in RunAtInputs :
          Enqueue(pr, mr, ra)
    \/ \E w \in Workers : Poll(w)
    \/ \E w \in Workers : GetNextJob(w)
    \/ \E w \in Workers : MarkCompleted(w)
    \/ \E j \in JobIds : AdminGet("cancel", j)
    \/ AdminUpdate
    \/ PurgeCompleted
    \/ GetStats
    \/ \E st \in ListStates, n \in ListLimits : ListJobs(st, n)
    \/ Tick

SpecReport == InitReport /\ [][NextReport]_vars

\* the worker loop under shutdown signals
NextShutdown ==
    \/ NextQueue
    \/ \E w \in Workers : Signal(w)
    \/ \E w \in Workers : Exit(w)

SpecShutdown == InitShutdown /\ [][NextShutdown]_vars

\* a step of WorkerPool.stop
StopStep == StopTerminate \/ StopJoined \/ StopJoinTimeout \/ StopKill

\* the worker loop, the signals, and the process that runs the pool
NextPool ==
    \/ NextShutdown
    \/ StartJoin
    \/ Interrupt
    \/ StopStep

\* stop is a sequence of calls that return: each of its steps is taken once it
\* can be
SpecPool == InitPool /\ [][NextPool]_vars /\ WF_vars(StopStep)

\* every command exits non-zero; enqueue and the worker loop
NextConfig ==
    \/ \E p \in Procs : SaveDb(p)
    \/ \E pr \in PriorityInputs, mr \in MaxRetriesInputs, ra \in RunAtInputs :
          Enqueue(pr, mr, ra)
    \/ \E w \in Workers : Poll(w)
    \/ \E w \in Workers : ResetForRetry(w)
    \/ \E w \in Workers : GetNextJob(w)
    \/ \E w \in Workers : MarkFailedGet(w)
    \/ \E w \in Workers : MarkFailedSave(w)
    \/ Tick

SpecConfig == InitConfig /\ [][NextConfig]_vars

\* one job's timeout and one execution
NextExecute ==
    \/ \E timeout \in TimeoutInputs : EnqueueTimeout(timeout)
    \/ \E duration \in DurationInputs, code \in ExitCodes : ExecuteJob(duration, code)

SpecExecute == InitExecute /\ [][NextExecute]_vars

\* config set and config get alone
NextSettings ==
    \/ \E key \in SettingsKeys, value \in SettingsValues : ConfigSet(key, value)
    \/ \E key \in Names : ConfigGet(key)

SpecSettings == InitSettings /\ [][NextSettings]_vars

\* ---------------------------------------------------------------- claims
\* the document a call's _load_db returned, seen from the step that loaded it
Loaded(p) == IF loadErr'[p] THEN EmptyDoc ELSE disk

\* process p's _save_db completes in this step
Saves(p) == pc[p] \in Saving /\ pc'[p] \notin Saving /\ committed' = db[p]

\* C1: at most one claim -- two workers never hold the same job as their
\* current job at the same time
AtMostOneClaim ==
    \A w1, w2 \in Workers :
        (w1 # w2 /\ cur[w1] # NoId) => cur[w1] # cur[w2]

\* C2: attempt bound -- every job of the store has 0 <= attempts <= max_retries
AttemptBound ==
    \A j \in JobIds :
        Has(committed, j) =>
            /\ 0 <= committed[j].attempts
            /\ committed[j].attempts <= committed[j].max_retries

\* C3: no reader sees a partial document -- no _load_db of any process takes
\* its except branch and hands back the empty document in place of the stored one
LoadSeesCommitted == \A p \in Procs : ~loadErr[p]

\* the jobs the operation process p is saving is about: its job id; for a claim
\* also the due scheduled jobs it promotes; for purge the completed jobs
Touches(p, j) ==
    \/ arg[p] = j
    \/ op[p] = "claim" /\ committed[j].state = "scheduled"
    \/ op[p] = "purge" /\ committed[j].state = "completed"

\* C4: every mutation is an atomic read-modify-write -- a save changes, in the
\* stored document, only the jobs its operation is about; what another process
\* committed to any other job in the meantime survives the save
AtomicMutation ==
    [][\A p \in Procs : \A j \in JobIds :
          (Saves(p) /\ Has(committed, j) /\ committed'[j] # committed[j])
              => Touches(p, j)]_vars

\* C5: crash durability -- the step in which a process is killed leaves the file
\* holding the document it held, never an empty or partial one
CrashDurability ==
    [][kills' # kills => (torn' = torn /\ disk' = disk)]_vars

\* C6: claim ordering -- whenever get_next_job locks a job, that job is a
\* candidate of the document it loaded (pending, or scheduled and due), no
\* candidate has a higher priority, and no candidate of the same priority has
\* an older created_at
ClaimOrdering ==
    [][\A w \in Workers :
          (pc[w] = "claim" /\ pc'[w] = "save") =>
              /\ arg'[w] \in Candidates(Loaded(w), now)
              /\ \A k \in Candidates(Loaded(w), now) :
                    /\ Loaded(w)[arg'[w]].priority >= Loaded(w)[k].priority
                    /\ Loaded(w)[arg'[w]].priority = Loaded(w)[k].priority
                          => Loaded(w)[arg'[w]].created_at <= Loaded(w)[k].created_at]_vars

\* C6's case: jobs of priorities 1, 10, 5 enqueued in this order; the job of
\* priority 10 has been claimed and completed, the job of priority 5 is being
\* locked, the job of priority 1 still waits
ClaimOrderingWitness ==
    \E w \in Workers :
        /\ op[w] = "claim" /\ pc[w] = "save" /\ arg[w] = 3
        /\ db[w][1].priority = 1 /\ db[w][2].priority = 10 /\ db[w][3].priority = 5
        /\ db[w][1].state = "pending"
        /\ db[w][2].state = "completed"
        /\ db[w][3].state = "running"

\* a run_at that has been parsed and lies in the future
NotYetDue(jb) == jb.run_at >= 0 /\ jb.run_at > now

\* C7: schedule gate -- a job whose run_at is later than the current time is
\* neither the job a get_next_job is locking or has returned, nor running
ScheduleGate ==
    /\ \A j \in JobIds : committed[j].state = "running" => ~NotYetDue(committed[j])
    /\ \A j \in JobIds : disk[j].state = "running" => ~NotYetDue(disk[j])
    /\ \A w \in Workers : op[w] = "claim" => ~NotYetDue(db[w][arg[w]])

\* C7's case: a claim has passed over a scheduled job that is older and of
\* higher priority but not yet due, and locked the other job
ScheduleGateWitness ==
    \E j, k \in JobIds :
        /\ committed[j].state = "scheduled" /\ NotYetDue(committed[j])
        /\ committed[k].state = "running"
        /\ committed[j].priority > committed[k].priority
        /\ committed[j].created_at <= committed[k].created_at

Terminal == {"completed", "dlq", "cancelled"}

\* C8: terminal states are absorbing -- a save leaves every completed, dlq or
\* cancelled job exactly as it was, except retry_job taking a dlq job to
\* pending with attempts = 0 (and purge_completed removing a completed job)
TerminalAbsorbing ==
    [][\A j \in JobIds :
          (committed[j].state \in Terminal /\ committed'[j] # committed[j]) =>
              \/ /\ committed[j].state = "dlq"
                 /\ Saves(Client) /\ op[Client] = "retry" /\ arg[Client] = j
                 /\ committed'[j].state = "pending" /\ committed'[j].attempts = 0
              \/ /\ committed[j].state = "completed"
                 /\ Saves(Client) /\ op[Client] = "purge"
                 /\ committed'[j] = NoJob]_vars

\* C9: a job is in dlq only with attempts equal to max_retries
DlqAtMaxRetries ==
    \A j \in JobIds :
        committed[j].state = "dlq" => committed[j].attempts = committed[j].max_retries

\* the lifecycle: state a to state b by the operation o of the saving process
Lifecycle(a, b, o, jb) ==
    \/ a = "absent" /\ b \in {"pending", "scheduled"} /\ o = "enqueue"
    \/ a = "pending" /\ b = "running" /\ o = "claim"
    \/ a = "scheduled" /\ b = "running" /\ o = "claim" /\ ~NotYetDue(jb)
    \/ a = "running" /\ b = "completed" /\ o = "complete"
    \/ a = "running" /\ b \in {"failed", "dlq"} /\ o = "fail"
    \/ a = "failed" /\ b = "pending" /\ o \in {"reset", "retry"}
    \/ a = "dlq" /\ b = "pending" /\ o = "retry"
    \/ a \in {"pending", "scheduled"} /\ b = "cancelled" /\ o = "cancel"
    \/ a = "completed" /\ b = "absent" /\ o = "purge"

\* C10: every change of a job's state in the store is a transition of the
\* lifecycle, made by the operation the lifecycle names for it
LifecycleTransitions ==
    [][\A j \in JobIds :
          committed'[j].state # committed[j].state =>
              \E p \in Procs :
                  /\ Saves(p)
                  /\ Lifecycle(committed[j].state, committed'[j].state, op[p],
                               committed[j])]_vars

\* cancel_job / retry_job (o) leaves its update_job call in this step
AdminActs(o) == pc[Client] = "update" /\ op[Client] = o /\ pc'[Client] # "update"

\* C11: cancel_job cancels only a pending or scheduled job -- when cancel_job
\* goes on to return true, the job it was called for is pending or scheduled in
\* the store and the document it saves holds the job as cancelled, with
\* cancelled_at written
CancelContract ==
    [][AdminActs("cancel") =>
          /\ committed[arg[Client]].state \in {"pending", "scheduled"}
          /\ pc'[Client] = "save"
          /\ db'[Client][arg[Client]].state = "cancelled"
          /\ db'[Client][arg[Client]].cancelled_at = Written]_vars

\* C12: cancellation is only effective before claim -- a job that has been
\* claimed (started_at written) never becomes cancelled, and a cancelled job
\* never moves to running, completed, failed or dlq
CancelBeforeClaim ==
    [][\A j \in JobIds :
          /\ (committed'[j].state = "cancelled" /\ committed[j].state # "cancelled")
                => committed[j].started_at = Absent
          /\ committed[j].state = "cancelled"
                => committed'[j].state \notin {"running", "completed", "failed", "dlq"}]_vars

\* C13: retry_job resets only a failed or dlq job -- when retry_job goes on to
\* return true, the job it was called for is failed or dlq in the store and the
\* document it saves holds the job as pending with attempts 0, error and
\* retry_after cleared
RetryContract ==
    [][AdminActs("retry") =>
          /\ committed[arg[Client]].state \in {"failed", "dlq"}
          /\ pc'[Client] = "save"
          /\ db'[Client][arg[Client]].state = "pending"
          /\ db'[Client][arg[Client]].attempts = 0
          /\ db'[Client][arg[Client]].error = ""
          /\ db'[Client][arg[Client]].retry_after = Null]_vars

\* nothing is in progress and nothing is waiting: the client and every worker
\* are between calls, no worker holds a job or a retry list, and the file holds
\* no pending, scheduled or failed job
Settled ==
    /\ pc[Client] = "idle"
    /\ \A w \in Workers : pc[w] \in {"poll", "claim", "dead"} /\ cur[w] = NoId
    /\ \A j \in JobIds : disk[j].state \notin {"pending", "scheduled", "failed"}

\* C14: a job whose command fails on every attempt ends in dlq with attempts
\* equal to max_retries and a non-empty error (before and after dlq retry) --
\* once nothing is in progress or waiting, every enqueued job is so
FailingJobEndsInDlq ==
    Settled =>
        \A j \in 1..issued :
            /\ disk[j].state = "dlq"
            /\ disk[j].attempts = disk[j].max_retries
            /\ disk[j].error # ""

\* C15: every enqueued job that is not cancelled reaches completed or dlq --
\* once nothing is in progress or waiting, every job an enqueue has returned
\* an id for is in the store as completed, dlq or cancelled
EveryJobFinishes ==
    Settled =>
        \A j \in 1..issued : disk[j].state \in {"completed", "dlq", "cancelled"}

\* the instant a parsed run_at names has passed
Elapsed(run_at, t) ==
    run_at \in {NaiveRunAt, OffsetRunAt} \/ (run_at >= 0 /\ run_at <= t)

\* C16: a scheduled job becomes eligible at its run_at -- a get_next_job that
\* reads the file undisturbed (no other process inside _save_db, the file
\* parseable) returns no job only when the file holds no scheduled job whose
\* run_at has passed
ScheduledBecomesEligible ==
    [][\A w \in Workers :
          (/\ pc[w] = "claim" /\ pc'[w] = "poll"
           /\ ~torn
           /\ \A q \in Procs \ {w} : pc[q] \notin Saving)
              => ~\E j \in JobIds :
                    disk[j].state = "scheduled" /\ Elapsed(disk[j].run_at, now)]_vars

\* C17: enqueue creates exactly one new job -- the document enqueue saves is
\* the one it loaded plus one job under an id the loaded document did not
\* hold; the job has attempts 0 and created_at = updated_at = now; it is
\* scheduled when run_at was given and parsed, and pending with no run_at
\* stored when run_at was absent or did not parse
EnqueueCreatesJob ==
    [][(pc[Client] = "idle" /\ op'[Client] = "enqueue") =>
          /\ ~Has(Loaded(Client), arg'[Client])
          /\ \A k \in JobIds \ {arg'[Client]} : db'[Client][k] = Loaded(Client)[k]
          /\ db'[Client][arg'[Client]].attempts = 0
          /\ db'[Client][arg'[Client]].created_at = now
          /\ db'[Client][arg'[Client]].updated_at = now
          /\ db'[Client][arg'[Client]].state =
                IF args'.run_at \in {Absent, BadRunAt} THEN "pending" ELSE "scheduled"
          /\ args'.run_at \in {Absent, BadRunAt}
                => db'[Client][arg'[Client]].run_at = Absent]_vars

\* C17's case: an enqueue given a run_at that does not parse is about to save
\* a pending job without run_at next to a job the store already held
EnqueueCreatesJobWitness ==
    /\ op[Client] = "enqueue" /\ pc[Client] = "save"
    /\ args.run_at = BadRunAt
    /\ db[Client][arg[Client]].state = "pending"
    /\ db[Client][arg[Client]].run_at = Absent
    /\ \E k \in JobIds \ {arg[Client]} : Has(db[Client], k) /\ db[Client][k] = disk[k]

\* a run_at converted to UTC: the same instant with offset +00:00
UtcNormal(run_at) == IF run_at = OffsetRunAt THEN 0 ELSE run_at

\* C18: round trip -- when enqueue returns, the store holds under the returned
\* id (what get_job reads) a job whose priority and max_retries are the values
\* provided and whose run_at, for every run_at enqueue accepts, is the value
\* provided normalized to UTC
RoundTrip ==
    [][(pc[Client] \in Saving /\ op[Client] = "enqueue" /\ pc'[Client] = "idle") =>
          /\ Has(committed', arg[Client])
          /\ committed'[arg[Client]].priority = args.priority
          /\ committed'[arg[Client]].max_retries = args.max_retries
          /\ args.run_at \notin {Absent, BadRunAt}
                => committed'[arg[Client]].run_at = UtcNormal(args.run_at)]_vars

\* C19: monotone timestamps -- every job of the store has updated_at >=
\* created_at, and no save takes a job's updated_at back
MonotoneUpdatedAt ==
    [][\A j \in JobIds :
          Has(committed', j) =>
              /\ committed'[j].updated_at >= committed'[j].created_at
              /\ Has(committed, j)
                    => committed'[j].updated_at >= committed[j].updated_at]_vars

\* C20: updated_at is refreshed on every mutation -- in the document an
\* operation hands to _save_db, every job that differs from the job it loaded
\* has updated_at set to the current time
UpdatedAtRefreshed ==
    [][\A p \in Procs :
          (pc'[p] = "save" /\ pc[p] \notin Saving) =>
              \A j \in JobIds :
                  (Has(db'[p], j) /\ db'[p][j] # Loaded(p)[j])
                      => db'[p][j].updated_at = now]_vars

\* C21: the terminal timestamps follow the state -- for every job of the
\* store, completed_at is set iff the state is completed, dlq_at is set iff
\* the state is dlq, and cancelled_at is set iff the state is cancelled
TerminalTimestamps ==
    \A j \in JobIds :
        Has(committed, j) =>
            /\ (committed[j].completed_at # Absent) <=> (committed[j].state = "completed")
            /\ (committed[j].dlq_at # Absent) <=> (committed[j].state = "dlq")
            /\ (committed[j].cancelled_at # Absent) <=> (committed[j].state = "cancelled")

\* C22: a running job has its worker and its start -- in the store, in the
\* file and in every document a process holds, a job in state running has
\* worker_id and started_at set; the job a get_next_job locks carries the
\* worker_id of the worker that called it
RunningHasWorker ==
    /\ \A j \in JobIds :
          /\ committed[j].state = "running" =>
                committed[j].worker_id \in Workers /\ committed[j].started_at # Absent
          /\ disk[j].state = "running" =>
                disk[j].worker_id \in Workers /\ disk[j].started_at # Absent
          /\ \A p \in Procs :
                db[p][j].state = "running" =>
                    db[p][j].worker_id \in Workers /\ db[p][j].started_at # Absent
    /\ \A w \in Workers :
          op[w] = "claim" =>
              /\ db[w][arg[w]].state = "running"
              /\ db[w][arg[w]].worker_id = w
              /\ db[w][arg[w]].started_at = Written

\* C22's case: a job that failed once under one worker has been reset and is
\* running again, locked by the other worker
RunningHasWorkerWitness ==
    \E j \in JobIds :
        /\ committed[j].state = "running"
        /\ committed[j].attempts = 1
        /\ committed[j].worker_id = 2
        /\ cur[2] = j

\* C23 as stated: a job whose run_at is set and still in the future is in
\* state scheduled
FutureRunAtScheduled ==
    \A j \in JobIds :
        /\ (Has(committed, j) /\ NotYetDue(committed[j]))
              => committed[j].state = "scheduled"
        /\ (Has(disk, j) /\ NotYetDue(disk[j])) => disk[j].state = "scheduled"

\* C23: a job whose run_at is set and still in the future is scheduled, or
\* cancelled by cancel_job; it is never pending, running, completed, failed
\* or dlq
FutureRunAtNotPending ==
    \A j \in JobIds :
        /\ (Has(committed, j) /\ NotYetDue(committed[j]))
              => committed[j].state \in {"scheduled", "cancelled"}
        /\ (Has(disk, j) /\ NotYetDue(disk[j]))
              => disk[j].state \in {"scheduled", "cancelled"}

\* C23's case: cancel_job has cancelled a scheduled job whose run_at is still
\* in the future, and the file holds it so
FutureRunAtNotPendingWitness ==
    \E j \in JobIds :
        /\ committed[j].state = "cancelled"
        /\ NotYetDue(committed[j])
        /\ disk[j] = committed[j]

\* the result of the call made in this step
Result == ret'[Len(ret')]

\* C24: stats consistency -- in every result of get_stats the per-state counts
\* (pending, running, completed, failed, dlq, scheduled) sum to total, and
\* success_rate is 100 * completed / total when total > 0 and 0 when total = 0
StatsConsistent ==
    \A i \in 1..Len(ret) :
        ret[i].call = "stats" =>
            /\ ret[i].stats.pending + ret[i].stats.running + ret[i].stats.completed
                  + ret[i].stats.failed + ret[i].stats.dlq + ret[i].stats.scheduled
                  = ret[i].stats.total
            /\ ret[i].stats.total > 0 =>
                  ret[i].stats.success_rate.num * ret[i].stats.total
                      = 100 * ret[i].stats.completed * ret[i].stats.success_rate.den
            /\ ret[i].stats.total = 0 => ret[i].stats.success_rate.num = 0

\* C25: list_jobs(state, limit) returns only jobs whose state equals the
\* filter, at most limit of them (all the matching jobs of an undisturbed file
\* when they are no more than limit), ordered with higher priority first and,
\* among equal priorities, newer created_at first
ListContract ==
    [][(ret' # ret /\ Result.call = "list") =>
          /\ \A i \in 1..Len(Result.jobs) :
                Result.state # "" => Result.jobs[i].state = Result.state
          /\ Len(Result.jobs) <= Result.limit
          /\ (~torn /\ \A q \in Procs : pc[q] \notin Saving) =>
                \/ Len(Result.jobs) = Result.limit
                \/ Len(Result.jobs) = Cardinality(Listed(disk, Result.state))
          /\ \A i, k \in 1..Len(Result.jobs) :
                i < k =>
                    /\ Result.jobs[i].priority >= Result.jobs[k].priority
                    /\ Result.jobs[i].priority = Result.jobs[k].priority
                          => Result.jobs[i].created_at >= Result.jobs[k].created_at]_vars

GracefulShutdown ==
    [][\A w \in Workers :
          /\ (~running[w] /\ pc[w] = "claim") => pc'[w] # "save"
          /\ cur[w] # NoId => pc'[w] # "exited"
          /\ (pc[w] # "exited" /\ pc'[w] = "exited") =>
                \A j \in JobIds :
                    ~(disk'[j].state = "running" /\ disk'[j].worker_id = w)]_vars

\* C28: WorkerPool.stop always terminates -- once stop has been called it
\* returns; by the time it waits, every live child has been sent terminate; no
\* wait of stop ends later than the grace window after start_time; stop kills
\* a child only when the window has passed; when stop has returned, and when
\* start has returned, no worker process is alive
PoolStopTerminates ==
    /\ [](pool.pc \in {"wait", "stopped"} =>
              \A w \in Workers : Alive(w) => ~running[w])
    /\ [](pool.pc \in {"stopped", "returned"} => \A w \in Workers : ~Alive(w))
    /\ [][(pool.pc = "wait" /\ now' # now) =>
              now' <= pool.start_time + GraceWindow]_vars
    /\ [][(pool.pc = "wait" /\ Alive(pool.i) /\ pc'[pool.i] = "dead") =>
              now >= pool.start_time + GraceWindow]_vars
    /\ (pool.pc = "terminate") ~> (pool.pc = "stopped")

\* C28's case: stop has returned after the whole grace window; one worker left
\* its loop on the terminate signal, the other was still executing a job when
\* the window ended and was killed
PoolStopTerminatesWitness ==
    /\ pool.pc = "stopped"
    /\ now = pool.start_time + GraceWindow
    /\ \E w, v \in Workers : pc[w] = "exited" /\ pc[v] = "dead"
    /\ \E j \in JobIds : disk[j].state = "running"

\* C29: no failure of a job's execution is fatal to the worker -- when the
\* command of the job a worker holds has failed, mark_failed goes on to record
\* the failure; the document it saves holds the job as failed or dlq with the
\* attempt counted and the error set; the worker stays alive through it and is
\* back at the top of its loop when mark_failed has returned
FailureRecorded ==
    [][\A w \in Workers :
          /\ (pc[w] = "exec" /\ pc'[w] # "exec") => pc'[w] = "fail_load"
          /\ (pc[w] = "fail_load" /\ pc'[w] # "fail_load") =>
                /\ pc'[w] = "save"
                /\ db'[w][arg[w]].state \in {"failed", "dlq"}
                /\ db'[w][arg[w]].attempts > 0
                /\ db'[w][arg[w]].error # ""
          /\ (pc[w] \in Saving /\ op[w] = "fail" /\ pc'[w] \notin Saving) =>
                pc'[w] = "poll" /\ cur'[w] = NoId]_vars

\* the value the layering gives: the flag when given, else the value of
\* data/config.json when it has one, else the environment variable when set,
\* else the compiled default
Layered(env, saved, flag) ==
    IF flag # Absent THEN flag
    ELSE IF saved # Absent THEN saved
    ELSE IF env # Absent THEN env
    ELSE DefaultBackoffBase

\* C30: configuration precedence -- the backoff_base a worker's mark_failed
\* uses for retry_after is the one the layering default < environment <
\* data/config.json < worker start flag gives; a persisted backoff_base is in
\* effect in a worker started without --backoff-base
ConfigPrecedence ==
    [][\A w \in Workers :
          (pc[w] = "exec" /\ pc'[w] = "fail_load" /\ job'[w].state = "failed") =>
              job'[w].retry_after
                  = now + Pow(Layered(lim.env, lim.saved, lim.flag), job'[w].attempts)]_vars

\* the names config get is asked with for the key config set was given: the
\* CLI alias, the canonical name and the synonyms of alias_map, or the
\* canonical name and its dashed form
AliasesOf(key) ==
    LET canonical == key_mapping(key) IN
    IF alias_map(canonical) # <<>>
    THEN {alias_map(canonical)[i] : i \in DOMAIN alias_map(canonical)}
    ELSE {canonical, Dashes(canonical)}

\* C31: config set/get round trip -- after config set <k> <v> with k a CLI
\* alias or a canonical name, config get with any alias of that key returns
\* v, and a Config() built from the file has v in that key's attribute
ConfigRoundTrip ==
    [][\A key \in SettingsKeys, value \in SettingsValues \ {NotANumber} :
          ConfigSet(key, value) =>
              /\ \A k \in AliasesOf(key) : \A aliases \in GetAliases(k) :
                    ConfigGetFound(config_data', Config(lim.env, config_data'),
                                   k, aliases).v = value
              /\ Config(lim.env, config_data')[key_mapping(key)].v = value]_vars

\* C32: reset_for_retry moves a job to pending only from state failed -- a
\* worker's reset_for_retry that finds the job and goes on to save it pending
\* has loaded it in state failed; a job another worker has meanwhile claimed,
\* or that has reached dlq or completed, is not put back to pending
ResetOnlyFromFailed ==
    [][\A w \in Workers :
          (pc[w] = "reset" /\ pc'[w] = "save") =>
              Loaded(w)[arg'[w]].state = "failed"]_vars

\* mark_failed's non-final failure stores retry_after = now + backoff_base ^
\* attempts, attempts being the incremented count
RetryAfterSet ==
    \A w \in Workers :
        (pc[w] = "exec" /\ pc'[w] = "fail_load" /\ job'[w].state = "failed") =>
            /\ job'[w].attempts = Loaded(w)[cur[w]].attempts + 1
            /\ job'[w].retry_after = now + Pow(lim.backoff, job'[w].attempts)

\* get_retryable_jobs returns exactly the failed jobs of the document it
\* loaded whose retry_after has come
RetryableExact ==
    \A w \in Workers :
        (pc[w] = "poll" /\ pc'[w] \in {"reset", "claim"}) =>
            rlist'[w] = {j \in JobIds : /\ Loaded(w)[j].state = "failed"
                                        /\ Loaded(w)[j].retry_after <= now}

\* a job that is failed in the store with its retry_after still ahead is not
\* made pending or running by the next write
GateKept ==
    \A j \in JobIds :
        (committed[j].state = "failed" /\ committed[j].retry_after > now) =>
            committed'[j].state \notin {"pending", "running"}

\* C33: backoff gate -- mark_failed sets retry_after = now + backoff_base ^
\* attempts, get_retryable_jobs returns exactly the failed jobs with
\* retry_after <= now, and the worker loop never re-admits a failed job to
\* pending, or claims it, before its retry_after
BackoffGate == [][RetryAfterSet /\ RetryableExact /\ GateKept]_vars

\* C34: a claim persists the promotion of the selected job only -- the
\* document a claim goes on to save differs from the one it loaded in the job
\* it returns and in no other: another due scheduled job is still scheduled
\* in it
ClaimFrame ==
    [][\A w \in Workers :
          (pc[w] = "claim" /\ pc'[w] = "save") =>
              \A j \in JobIds \ {arg'[w]} : db'[w][j] = Loaded(w)[j]]_vars

\* C35 as stated: an execution is cut off by a timeout exactly when the job's
\* own timeout is set and positive and the command outlives it; a job
\* enqueued without a timeout never ends with a 'timed out' error
OwnTimeoutBounds ==
    execution.pc = "executed" =>
        (execution.error = "timed out"
            <=> (execution.given > 0 /\ execution.duration > execution.given))

\* C35: an execution is cut off by a timeout exactly when the command outlives
\* the effective timeout and that is positive -- the job's own timeout when
\* it was given and not 0, the worker's default_timeout otherwise; it then
\* ends in mark_failed with the error 'Job timed out after T seconds', and
\* in no other case with that error
EffectiveTimeoutBounds ==
    execution.pc = "executed" =>
        LET T == IF execution.given \in {Absent, 0} THEN lim.default_timeout
                 ELSE execution.given
        IN /\ execution.error = "timed out" <=> (T > 0 /\ execution.duration > T)
           /\ execution.error = "timed out" =>
                  execution.call = "mark_failed" /\ execution.after = T

\* a job enqueued without --timeout is killed under the default timeout
EffectiveTimeoutBoundsWitness ==
    /\ execution.pc = "executed"
    /\ execution.given = Absent
    /\ execution.error = "timed out"
    /\ execution.after = lim.default_timeout

\* C36: no reaper -- a job that is running in the store for a worker that
\* crashed or was force-killed stays as it is: no write of another worker's
\* loop, of cancel_job, of retry_job or of any other call changes it
NoReaper ==
    [][\A j \in JobIds :
          (/\ committed[j].state = "running"
           /\ committed[j].worker_id \in Workers
           /\ pc[committed[j].worker_id] = "dead") =>
              committed'[j] = committed[j]]_vars

\* C37: no job loss -- a job that is in the store is in the store after
\* every write, except for a completed job that purge_completed removes;
\* no operation running beside others, and none that follows a failed load,
\* drops a job
NoJobLoss ==
    [][\A j \in JobIds :
          (Has(committed, j) /\ ~Has(committed', j)) =>
              /\ committed[j].state = "completed"
              /\ \E p \in Procs : op[p] = "purge" /\ Saves(p)]_vars

\* C38: when _execute_job returns for the claimed job, exactly one of
\* mark_completed and mark_failed has taken effect -- the worker goes back to
\* its loop on the completion of its own save of that call, and the store then
\* holds the job as completed, failed or dlq, not as running for that worker
ExecutionRecorded ==
    [][\A w \in Workers :
          (cur[w] # NoId /\ cur'[w] = NoId /\ pc'[w] = "poll") =>
              /\ Saves(w) /\ op[w] \in {"complete", "fail"}
              /\ committed'[cur[w]].state \in {"completed", "failed", "dlq"}
              /\ ~(disk'[cur[w]].state = "running" /\ disk'[cur[w]].worker_id = w)]_vars

\* C39: every failed job has a retry_after that is not null -- in the file,
\* in the last document written in full and in every document a process has
\* loaded or built, so get_retryable_jobs' retry_after <= now never raises on
\* a failed job
FailedHasRetryAfter ==
    /\ \A j \in JobIds :
          /\ disk[j].state = "failed" => disk[j].retry_after >= 0
          /\ committed[j].state = "failed" => committed[j].retry_after >= 0
          /\ \A p \in Procs :
                /\ db[p][j].state = "failed" => db[p][j].retry_after >= 0
                /\ job[p].state = "failed" => job[p].retry_after >= 0
    /\ ~RetryableRaises(disk)

\* a job that retry_job had reset, storing retry_after null, has failed again
\* and is in the store as failed
FailedHasRetryAfterWitness ==
    \E j \in JobIds :
        /\ committed[j].state = "failed"
        /\ committed[j].dlq_at = Written
        /\ committed[j].retry_after >= 0

\* C40: the state the CLI's enqueue prints is the state of the job that
\* JobManager.enqueue stored, whether --run-at is absent, valid or
\* unparseable
EnqueueEchoesState ==
    [][(pc[Client] \in Saving /\ op[Client] = "enqueue" /\ pc'[Client] = "idle") =>
          out'.state = db[Client][arg[Client]].state]_vars

====
